---- MODULE Spec2Model ----
(***************************************************************************)
(* A model of app.py, the "One Pager" Streamlit application: a PDF is      *)
(* uploaded, its text is extracted (parse_pdf), sent to a chat completion  *)
(* service (get_expert_analysis), the reply is cleaned of code fences and  *)
(* parsed as JSON, and the parsed value is kept in the session and shown.  *)
(*                                                                         *)
(* Text is a sequence of one-character strings.  A Python value is a       *)
(* record [t |-> type, v |-> payload]: None, str, dict, list.              *)
(***************************************************************************)
EXTENDS Integers, Sequences, FiniteSets, TLC

VARIABLES
    \* ---- the session (st.session_state, the widgets, the script runs) ----
    api_key,          \* GROQ_API_KEY is configured
    uploaded_file,    \* the file_uploader's value: None or a document
    analysis_result,  \* st.session_state.analysis_result
    processing,       \* st.session_state.processing
    pc,               \* per analyze trigger: where its script run stands
    file,             \* per trigger: the uploaded_file its script run read
    paper_text,       \* per trigger: parse_pdf's return value
    reply,            \* per trigger: what requests.post produced
    issued,           \* per trigger: completion requests sent
    reported,         \* per trigger: the st.error messages shown, in order
    excerpt,          \* per trigger: the st.text "Raw response" excerpt
    rendered,         \* what the last script run left on the page
    \* ---- parse_pdf applied to a drawn document ----
    pdf_file, pdf_out,
    \* ---- the reply clean-up applied to a drawn completion content ----
    fc_in, fc_out

session_vars == <<api_key, uploaded_file, analysis_result, processing, pc,
                  file, paper_text, reply, issued, reported, excerpt, rendered>>
pdf_vars == <<pdf_file, pdf_out>>
fc_vars == <<fc_in, fc_out>>
vars == <<session_vars, pdf_vars, fc_vars>>

-----------------------------------------------------------------------------
(* Bounds of the model *)

MaxPages == 3       \* pages of a drawn document
BigPageLen == 7499  \* characters of the long page text
ProseLen == 600     \* characters of the long non-JSON reply
MaxTriggers == 2    \* Analyze triggers of one session

(* Constants of the program *)

Budget == 15000       \* text[:15000]
FencePrefixLen == 7   \* content[7:]
FenceSuffixLen == 3   \* content[:-3]
ExcerptLen == 500     \* content[:500]

-----------------------------------------------------------------------------
(* Python values and slices *)

None == [t |-> "None", v |-> <<>>]
Str(s) == [t |-> "str", v |-> s]
Dict(f) == [t |-> "dict", v |-> f]
List(q) == [t |-> "list", v |-> q]

\* bool(x) of Python: None, "", {} and [] are false
Truthy(x) ==
    CASE x.t = "None" -> FALSE
      [] x.t = "str"  -> Len(x.v) > 0
      [] x.t = "list" -> Len(x.v) > 0
      [] x.t = "dict" -> DOMAIN x.v # {}
      [] OTHER -> TRUE

Min(a, b) == IF a <= b THEN a ELSE b
Max(a, b) == IF a >= b THEN a ELSE b

\* s[:n] for n >= 0
Take(s, n) == SubSeq(s, 1, Min(n, Len(s)))
\* s[n:] for n >= 0
Drop(s, n) == SubSeq(s, n + 1, Len(s))
\* s[:-n] for n > 0
DropLast(s, n) == SubSeq(s, 1, Max(Len(s) - n, 0))

StartsWith(s, p) == Len(s) >= Len(p) /\ SubSeq(s, 1, Len(p)) = p
EndsWith(s, p) == Len(s) >= Len(p) /\ SubSeq(s, Len(s) - Len(p) + 1, Len(s)) = p

Repeat(c, n) == [i \in 1..n |-> c]

-----------------------------------------------------------------------------
(* parse_pdf *)

\* page.extract_text() raises on this page
Raises == [t |-> "raise", v |-> <<>>]

\* A document: whether pdfplumber.open succeeds, and what extract_text gives
\* for each page (None, a str, or an exception).
Document(opens, pages) == [t |-> "file", v |-> [opens |-> opens, pages |-> pages]]

\* text += page_text + "\n"
AppendPage(text, page_text) == text \o page_text \o <<"\n">>

\* a parse_pdf that forgets the cut: return text
TruncateNone(text) == text

\* return text[:15000]
Truncate(text) == Take(text, Budget)

\* The for loop from page i on, text being what is accumulated so far; the
\* result is the return value of parse_pdf.
RECURSIVE PdfLoop(_, _, _)
PdfLoop(pages, i, text) ==
    IF i > Len(pages) THEN Str(Truncate(text))
    ELSE IF pages[i].t = "raise" THEN None
    ELSE IF Truthy(pages[i]) THEN PdfLoop(pages, i + 1, AppendPage(text, pages[i].v))
    ELSE PdfLoop(pages, i + 1, text)

parse_pdf(file_stream) ==
    IF ~file_stream.v.opens THEN None ELSE PdfLoop(file_stream.v.pages, 1, <<>>)

\* parse_pdf reports the exception with st.error before returning None
PdfRaises(file_stream) ==
    \/ ~file_stream.v.opens
    \/ \E i \in 1..Len(file_stream.v.pages) : file_stream.v.pages[i].t = "raise"

-----------------------------------------------------------------------------
(* Text: str.strip, json.loads *)

IsSpace(c) == c \in {" ", "\n", "\t", "\r"}

\* the first position from i on that holds no white space (Len(s) + 1 if none)
RECURSIVE SkipWs(_, _)
SkipWs(s, i) == IF i > Len(s) \/ ~IsSpace(s[i]) THEN i ELSE SkipWs(s, i + 1)

\* the last position up to i that holds no white space (0 if none)
RECURSIVE SkipWsBack(_, _)
SkipWsBack(s, i) == IF i < 1 \/ ~IsSpace(s[i]) THEN i ELSE SkipWsBack(s, i - 1)

\* content.strip()
Strip(s) == SubSeq(s, SkipWs(s, 1), SkipWsBack(s, Len(s)))

\* the first position from i on that holds c (Len(s) + 1 if none)
RECURSIVE Find(_, _, _)
Find(s, i, c) == IF i > Len(s) \/ s[i] = c THEN i ELSE Find(s, i + 1, c)

Q == "\""
Bool(b) == [t |-> "bool", v |-> b]

\* the outcome of a parsing step: a value and the position after it, or not ok
Parsed(val, next) == [ok |-> TRUE, val |-> val, next |-> next]
NoParse == [ok |-> FALSE, val |-> None, next |-> 0]

Literal(s, i, word) == SubSeq(s, i, Min(i + Len(word) - 1, Len(s))) = word

\* a string starting with the quote at i: up to the next quote, no control
\* character inside (texts here hold no backslash)
ParseString(s, i) ==
    LET j == Find(s, i + 1, Q)
        body == SubSeq(s, i + 1, j - 1)
    IN IF j > Len(s) THEN NoParse
       ELSE IF \E k \in 1..Len(body) : body[k] \in {"\n", "\t", "\r"} THEN NoParse
       ELSE Parsed(Str(body), j + 1)

RECURSIVE ParseValue(_, _), ParseMembers(_, _, _), ParseElements(_, _, _)

\* the JSON value starting at position i (white space already skipped)
ParseValue(s, i) ==
    IF i > Len(s) THEN NoParse
    ELSE IF s[i] = Q THEN ParseString(s, i)
    ELSE IF s[i] = "{" THEN
        LET k == SkipWs(s, i + 1)
        IN IF k <= Len(s) /\ s[k] = "}" THEN Parsed(Dict(<<>>), k + 1)
           ELSE ParseMembers(s, k, <<>>)
    ELSE IF s[i] = "[" THEN
        LET k == SkipWs(s, i + 1)
        IN IF k <= Len(s) /\ s[k] = "]" THEN Parsed(List(<<>>), k + 1)
           ELSE ParseElements(s, k, <<>>)
    ELSE IF Literal(s, i, <<"n", "u", "l", "l">>) THEN Parsed(None, i + 4)
    ELSE IF Literal(s, i, <<"t", "r", "u", "e">>) THEN Parsed(Bool(TRUE), i + 4)
    ELSE IF Literal(s, i, <<"f", "a", "l", "s", "e">>) THEN Parsed(Bool(FALSE), i + 5)
    ELSE NoParse

\* "key": value pairs from position i on, acc the pairs read so far (a later
\* pair of the same key replaces the earlier one), up to the closing brace
ParseMembers(s, i, acc) ==
    IF i > Len(s) \/ s[i] # Q THEN NoParse
    ELSE LET key == ParseString(s, i)
         IN IF ~key.ok THEN NoParse
            ELSE LET c == SkipWs(s, key.next)
                 IN IF c > Len(s) \/ s[c] # ":" THEN NoParse
                    ELSE LET val == ParseValue(s, SkipWs(s, c + 1))
                         IN IF ~val.ok THEN NoParse
                            ELSE LET now == (key.val.v :> val.val) @@ acc
                                     e == SkipWs(s, val.next)
                                 IN IF e > Len(s) THEN NoParse
                                    ELSE IF s[e] = "}" THEN Parsed(Dict(now), e + 1)
                                    ELSE IF s[e] = "," THEN ParseMembers(s, SkipWs(s, e + 1), now)
                                    ELSE NoParse

\* the values of an array from position i on, up to the closing bracket
ParseElements(s, i, acc) ==
    LET val == ParseValue(s, i)
    IN IF ~val.ok THEN NoParse
       ELSE LET now == Append(acc, val.val)
                e == SkipWs(s, val.next)
            IN IF e > Len(s) THEN NoParse
               ELSE IF s[e] = "]" THEN Parsed(List(now), e + 1)
               ELSE IF s[e] = "," THEN ParseElements(s, SkipWs(s, e + 1), now)
               ELSE NoParse

\* json.loads(s): one value, white space around it allowed, nothing after it;
\* not ok stands for json.JSONDecodeError
json_loads(s) ==
    LET r == ParseValue(s, SkipWs(s, 1))
    IN IF r.ok /\ SkipWs(s, r.next) > Len(s) THEN r ELSE NoParse

-----------------------------------------------------------------------------
(* get_expert_analysis: the clean-up and parse of the completion content *)

\* the backquote character (a TLA+ string cannot hold it)
BT == "backquote"
Fence == <<BT, BT, BT>>
FenceJson == <<BT, BT, BT, "j", "s", "o", "n">>

\* a clean-up that drops the three backquotes and leaves the tag
StripOpeningFenceBare(content) ==
    IF StartsWith(content, Fence) THEN Drop(content, Len(Fence)) ELSE content

\* if content.startswith(<fence>json): content = content[7:]
StripOpeningFence(content) ==
    IF StartsWith(content, FenceJson) THEN Drop(content, FencePrefixLen) ELSE content

\* if content.endswith(<fence>): content = content[:-3]
StripClosingFence(content) ==
    IF EndsWith(content, Fence) THEN DropLast(content, FenceSuffixLen) ELSE content

\* content as json.loads receives it
CleanContent(content) == StripClosingFence(StripOpeningFence(Strip(content)))

\* a handler that shows the whole content: content
RawExcerptWhole(content) == content

\* content[:500], the part of the "Raw response" line taken from the content
RawExcerpt(content) == Take(content, ExcerptLen)

\* Lines 155-164 for a content string: the value returned, whether the
\* JSONDecodeError handler ran, and the excerpt it showed.
ParseContent(content) ==
    LET clean == CleanContent(content)
        r == json_loads(clean)
    IN IF r.ok THEN [ret |-> r.val, caught |-> FALSE, shown |-> None]
       ELSE [ret |-> None, caught |-> TRUE, shown |-> Str(RawExcerpt(clean))]

-----------------------------------------------------------------------------
(* The schema of the prompt (a part of it) and the display of a result *)

metadata == <<"m", "e", "t", "a", "d", "a", "t", "a">>
title == <<"t", "i", "t", "l", "e">>
year == <<"y", "e", "a", "r">>
summary == <<"s", "u", "m", "m", "a", "r", "y">>
research_question == <<"r", "e", "s", "e", "a", "r", "c", "h", "_",
                       "q", "u", "e", "s", "t", "i", "o", "n">>
key_findings == <<"k", "e", "y", "_", "f", "i", "n", "d", "i", "n", "g", "s">>
extra == <<"e", "x", "t", "r", "a">>
NA == <<"N", "/", "A">>

\* the sections the display reads and, in each, the scalar and the list keys
Sections == {metadata, summary}
ScalarKeys(section) == IF section = metadata THEN {title, year} ELSE {research_question}
ListKeys(section) == IF section = metadata THEN {} ELSE {key_findings}
SchemaPaths ==
    UNION {{<<sec, k>> : k \in ScalarKeys(sec) \cup ListKeys(sec)} : sec \in Sections}

\* d.get(k, default)
Get(d, k, default) == IF k \in DOMAIN d.v THEN d.v[k] ELSE default

\* a display that reads the keys with d[k] semantics gone wrong: every key
\* missing from a section is shown as the empty string
DisplayBlank(result) ==
    IF result.t # "dict" THEN [page |-> "exception", view |-> <<>>]
    ELSE IF \E sec \in Sections : Get(result, sec, Dict(<<>>)).t # "dict"
    THEN [page |-> "exception", view |-> <<>>]
    ELSE [page |-> "results",
          view |-> [p \in SchemaPaths |->
                      Get(Get(result, p[1], Dict(<<>>)), p[2], Str(<<>>))]]

\* What the display_*_section calls of main show for a result: each schema
\* key's value or its default.  result.get or section.get on a value that is
\* no dict raises AttributeError.
Display(result) ==
    IF result.t # "dict" THEN [page |-> "exception", view |-> <<>>]
    ELSE IF \E sec \in Sections : Get(result, sec, Dict(<<>>)).t # "dict"
    THEN [page |-> "exception", view |-> <<>>]
    ELSE [page |-> "results",
          view |-> [p \in SchemaPaths |->
                      LET section == Get(result, p[1], Dict(<<>>))
                      IN IF p[2] \in ListKeys(p[1])
                         THEN Get(section, p[2], List(<<>>))
                         ELSE Get(section, p[2], Str(NA))]]

-----------------------------------------------------------------------------
(* The texts a completion may hold *)

Quoted(s) == <<Q>> \o s \o <<Q>>
Member(k, v) == Quoted(k) \o <<":">> \o v
RECURSIVE JoinComma(_)
JoinComma(parts) ==
    IF parts = <<>> THEN <<>>
    ELSE IF Len(parts) = 1 THEN parts[1]
    ELSE parts[1] \o <<",">> \o JoinComma(Tail(parts))
Object(members) == <<"{">> \o JoinComma(members) \o <<"}">>
Array(elements) == <<"[">> \o JoinComma(elements) \o <<"]">>

\* {"metadata":{"title":"T","year":"Y"},
\*  "summary":{"research_question":"R","key_findings":["F","G"]}}
FullJson ==
    Object(<<Member(metadata, Object(<<Member(title, Quoted(<<"T">>)),
                                       Member(year, Quoted(<<"Y">>))>>)),
             Member(summary, Object(<<Member(research_question, Quoted(<<"R">>)),
                                      Member(key_findings,
                                             Array(<<Quoted(<<"F">>), Quoted(<<"G">>)>>))>>))>>)
\* {"metadata":{"title":"T"}}
PartialJson == Object(<<Member(metadata, Object(<<Member(title, Quoted(<<"T">>))>>))>>)
\* {"summary":{"research_question":"R"},"extra":"E"}
ExtraJson ==
    Object(<<Member(summary, Object(<<Member(research_question, Quoted(<<"R">>))>>)),
             Member(extra, Quoted(<<"E">>))>>)
\* {"metadata":{}}
HollowJson == Object(<<Member(metadata, Object(<<>>))>>)
\* {}
EmptyJson == Object(<<>>)
JsonObjects == {FullJson, PartialJson, ExtraJson, HollowJson, EmptyJson}

\* a JSON text wrapped as a completion may wrap it: white space before it,
\* an opening fence (tagged json, or bare), a separator between the fences
\* and the text, a closing fence
Wrap(j, lead, opening, sep, closing) ==
    lead
    \o (CASE opening = "tagged" -> FenceJson [] opening = "bare" -> Fence [] OTHER -> <<>>)
    \o sep \o j \o sep
    \o (IF closing THEN Fence ELSE <<>>)

\* prose, and a longer one than the excerpt shown
Prose == <<"S", "o", "r", "r", "y", ".">>
LongProse == Repeat("x", ProseLen)

-----------------------------------------------------------------------------
(* The session: main, run by Streamlit from the top on every interaction *)

Triggers == 1..MaxTriggers

\* the script runs of a trigger that are under way
InProgress == {"Extracting", "Requesting", "Normalizing"}

\* the documents a user uploads: one that does not open, a scanned one (no
\* text on its page), one with text
SessionDocs ==
    {Document(FALSE, <<>>), Document(TRUE, <<None>>), Document(TRUE, <<Str(<<"b", "c">>)>>)}

\* the contents of a completion
SessionContents ==
    {FullJson, PartialJson, ExtraJson, EmptyJson,
     Wrap(PartialJson, <<>>, "tagged", <<"\n">>, TRUE),
     Wrap(PartialJson, <<>>, "bare", <<"\n">>, TRUE),
     Quoted(<<"T">>),
     Prose, LongProse, <<" ">> \o FenceJson \o LongProse}

\* What requests.post and response.json() can produce: an exception of the
\* transport, a status other than 200, a 200 whose body is no JSON, lacks
\* "choices", has an empty "choices" or a null content, a 200 with a content.
Response(status, body, content) ==
    [kind |-> "response", status |-> status, body |-> body, content |-> content]
NoReply == [kind |-> "none", status |-> 0, body |-> "none", content |-> <<>>]
Replies ==
    {[kind |-> "exception", status |-> 0, body |-> "none", content |-> <<>>]}
    \cup {Response(429, "text", <<>>)}
    \cup {Response(200, b, <<>>) :
            b \in {"undecodable", "no_choices", "empty_choices", "null_content"}}
    \cup {Response(200, "content", c) : c \in SessionContents}

ConfigError == [page |-> "config_error", view |-> <<>>]
UploadForm == [page |-> "upload_form", view |-> <<>>]
Exception == [page |-> "exception", view |-> <<>>]

\* if not GROQ_API_KEY: st.error(...); st.stop()
Stops == ~api_key

\* if not st.session_state.analysis_result: the upload section
ShowsUpload == ~Truthy(analysis_result)

\* a guard that forgets the flag: if uploaded_file:
AnalyzeShownNoFlag == Truthy(uploaded_file)

\* if uploaded_file and not st.session_state.processing: the Analyze button
AnalyzeShown == Truthy(uploaded_file) /\ ~processing

\* a main that calls get_expert_analysis whatever parse_pdf returned
PaperTextAny(text) == TRUE

\* if paper_text: (main)
PaperTextOk(text) == Truthy(text)

\* if not paper_text: return None (get_expert_analysis); otherwise the
\* request is posted
PostsRequest(text) == Truthy(text)

\* if result: (main)
ResultOk(result) == Truthy(result)

\* the page a script run without a click leaves
Page ==
    IF Stops THEN ConfigError
    ELSE IF ShowsUpload THEN UploadForm
    ELSE Display(analysis_result)

SessionInit ==
    /\ api_key \in BOOLEAN
    /\ uploaded_file = None
    /\ analysis_result = None
    /\ processing = FALSE
    /\ pc = [a \in Triggers |-> "NotYet"]
    /\ file = [a \in Triggers |-> None]
    /\ paper_text = [a \in Triggers |-> None]
    /\ reply = [a \in Triggers |-> NoReply]
    /\ issued = [a \in Triggers |-> 0]
    /\ reported = [a \in Triggers |-> <<>>]
    /\ excerpt = [a \in Triggers |-> None]
    /\ rendered = IF api_key THEN UploadForm ELSE ConfigError

\* The user chooses a file in the uploader; the script reruns without a click.
Upload(d) ==
    /\ ~Stops /\ ShowsUpload
    /\ uploaded_file' = d
    /\ rendered' = UploadForm
    /\ UNCHANGED <<pdf_vars, fc_vars, api_key, analysis_result, processing, pc, file, paper_text,
                   reply, issued, reported, excerpt>>

\* A script run without a click (any other interaction).
Rerun ==
    /\ rendered' = Page
    /\ UNCHANGED <<pdf_vars, fc_vars, api_key, uploaded_file, analysis_result, processing, pc, file,
                   paper_text, reply, issued, reported, excerpt>>

\* An Analyze trigger: main from the top up to the button.  The run starts
\* an analysis (processing = True) or ignores the trigger.  A trigger may
\* arrive at any step of an analysis under way: the script runs of a session
\* interleave at the steps Extract, Respond and Normalize, and a run goes on
\* to its end or to its exception.
Analyze(a) ==
    /\ pc[a] = "NotYet" /\ \A b \in 1..(a - 1) : pc[b] # "NotYet"
    /\ IF Stops
       THEN /\ pc' = [pc EXCEPT ![a] = "Stopped"]
            /\ rendered' = ConfigError
            /\ UNCHANGED <<processing, file>>
       ELSE IF ShowsUpload /\ AnalyzeShown
       THEN /\ processing' = TRUE
            /\ pc' = [pc EXCEPT ![a] = "Extracting"]
            /\ file' = [file EXCEPT ![a] = uploaded_file]
            /\ UNCHANGED rendered
       ELSE /\ pc' = [pc EXCEPT ![a] = "Ignored"]
            /\ rendered' = Page
            /\ UNCHANGED <<processing, file>>
    /\ UNCHANGED <<pdf_vars, fc_vars, api_key, uploaded_file, analysis_result, paper_text, reply,
                   issued, reported, excerpt>>

\* paper_text = parse_pdf(uploaded_file), and what main does with it: the
\* call of get_expert_analysis up to the post, or the extraction failure.
Extract(a) ==
    /\ pc[a] = "Extracting"
    /\ LET text == parse_pdf(file[a])
           said == IF PdfRaises(file[a]) THEN <<"pdf_error">> ELSE <<>>
       IN /\ paper_text' = [paper_text EXCEPT ![a] = text]
          /\ IF PaperTextOk(text)
             THEN IF PostsRequest(text)
                  THEN /\ issued' = [issued EXCEPT ![a] = @ + 1]
                       /\ pc' = [pc EXCEPT ![a] = "Requesting"]
                       /\ reported' = [reported EXCEPT ![a] = @ \o said]
                       /\ UNCHANGED <<processing, rendered>>
                  ELSE /\ reported' = [reported EXCEPT ![a] = @ \o said \o <<"analysis_failed">>]
                       /\ pc' = [pc EXCEPT ![a] = "Failed"]
                       /\ processing' = FALSE
                       /\ rendered' = UploadForm
                       /\ UNCHANGED issued
             ELSE /\ reported' = [reported EXCEPT ![a] = @ \o said \o <<"extract_failed">>]
                  /\ pc' = [pc EXCEPT ![a] = "Failed"]
                  /\ processing' = FALSE
                  /\ rendered' = UploadForm
                  /\ UNCHANGED issued
    /\ UNCHANGED <<pdf_vars, fc_vars, api_key, uploaded_file, analysis_result, file, reply, excerpt>>

\* requests.post returns or raises; the status check and
\* response.json()['choices'][0]['message']['content'].
\* An exception of the post, an IndexError and an AttributeError are caught
\* nowhere.  A JSONDecodeError of response.json() and a KeyError are caught,
\* st.error is called, and content[:500] raises UnboundLocalError, content
\* being unassigned.  An exception ends the script run where it stands.
Respond(a, r) ==
    /\ pc[a] = "Requesting"
    /\ reply' = [reply EXCEPT ![a] = r]
    /\ IF r.kind = "exception" \/ (r.status = 200 /\ r.body \in {"empty_choices", "null_content"})
       THEN /\ pc' = [pc EXCEPT ![a] = "Crashed"]
            /\ rendered' = Exception
            /\ UNCHANGED <<processing, reported>>
       ELSE IF r.status = 200 /\ r.body \in {"undecodable", "no_choices"}
       THEN /\ pc' = [pc EXCEPT ![a] = "Crashed"]
            /\ reported' = [reported EXCEPT ![a] = Append(@, "parse_error")]
            /\ rendered' = Exception
            /\ UNCHANGED processing
       ELSE IF r.status = 200
       THEN /\ pc' = [pc EXCEPT ![a] = "Normalizing"]
            /\ UNCHANGED <<processing, reported, rendered>>
       ELSE /\ pc' = [pc EXCEPT ![a] = "Failed"]
            /\ reported' = [reported EXCEPT ![a] = @ \o <<"api_error", "analysis_failed">>]
            /\ processing' = FALSE
            /\ rendered' = UploadForm
    /\ UNCHANGED <<pdf_vars, fc_vars, api_key, uploaded_file, analysis_result, file, paper_text,
                   issued, excerpt>>

\* The content is stripped, cleaned of fences and parsed, and main stores
\* the result and reruns (st.rerun() ends the run before processing is
\* reset; the rerun shows the result), or reports the failure.
Normalize(a) ==
    /\ pc[a] = "Normalizing"
    /\ LET out == ParseContent(reply[a].content)
           said == IF out.caught THEN <<"parse_error">> ELSE <<>>
       IN /\ excerpt' = [excerpt EXCEPT ![a] = out.shown]
          /\ IF ResultOk(out.ret)
             THEN /\ analysis_result' = out.ret
                  /\ pc' = [pc EXCEPT ![a] = "Done"]
                  /\ reported' = [reported EXCEPT ![a] = @ \o said]
                  /\ rendered' = Display(out.ret)
                  /\ UNCHANGED processing
             ELSE /\ reported' = [reported EXCEPT ![a] = @ \o said \o <<"analysis_failed">>]
                  /\ pc' = [pc EXCEPT ![a] = "Failed"]
                  /\ processing' = FALSE
                  /\ rendered' = UploadForm
                  /\ UNCHANGED analysis_result
    /\ UNCHANGED <<pdf_vars, fc_vars, api_key, uploaded_file, file, paper_text, reply, issued>>

\* an "Analyze New Paper" that clears the result and leaves the flag set
NewAnalysisKeepsFlag ==
    /\ ~Stops /\ ~ShowsUpload
    /\ analysis_result' = None
    /\ rendered' = UploadForm
    /\ UNCHANGED <<pdf_vars, fc_vars, api_key, uploaded_file, processing, pc, file,
                   paper_text, reply, issued, reported, excerpt>>

\* "Analyze New Paper", shown above a held result: the result and the flag
\* are cleared and the script reruns.
NewAnalysis ==
    /\ ~Stops /\ ~ShowsUpload
    /\ analysis_result' = None
    /\ processing' = FALSE
    /\ rendered' = UploadForm
    /\ UNCHANGED <<pdf_vars, fc_vars, api_key, uploaded_file, pc, file, paper_text, reply, issued,
                   reported, excerpt>>

-----------------------------------------------------------------------------
(* parse_pdf and the clean-up of a content, each applied to a drawn input *)

PageTexts ==
    {None, Str(<<>>), Str(<<"b", "c">>), Str(Repeat("a", BigPageLen)), Raises}
DrawnDocs ==
    {Document(TRUE, p) : p \in UNION {[1..n -> PageTexts] : n \in 0..MaxPages}}
        \cup {Document(FALSE, <<>>)}

NotApplied == [done |-> FALSE, ret |-> None]
PdfIdle == pdf_file = None /\ pdf_out = NotApplied
PdfInit == pdf_file \in DrawnDocs /\ pdf_out = NotApplied
ApplyParsePdf ==
    /\ ~pdf_out.done
    /\ pdf_out' = [done |-> TRUE, ret |-> parse_pdf(pdf_file)]
    /\ UNCHANGED <<pdf_file, session_vars, fc_vars>>

\* a JSON object text or prose, and how it is wrapped
DrawnContents ==
    [j : JsonObjects \cup {Prose}, lead : {<<>>, <<" ">>},
     opening : {"none", "tagged", "bare"}, sep : {<<>>, <<"\n">>}, closing : BOOLEAN]
Content(in) == Wrap(in.j, in.lead, in.opening, in.sep, in.closing)
NoContent ==
    [j |-> <<>>, lead |-> <<>>, opening |-> "none", sep |-> <<>>, closing |-> FALSE]
NotParsed == [done |-> FALSE, ret |-> None, caught |-> FALSE, shown |-> None]
FcIdle == fc_in = NoContent /\ fc_out = NotParsed
FcInit == fc_in \in DrawnContents /\ fc_out = NotParsed
ApplyParseContent ==
    /\ ~fc_out.done
    /\ fc_out' = [done |-> TRUE] @@ ParseContent(Content(fc_in))
    /\ UNCHANGED <<fc_in, session_vars, pdf_vars>>

SessionIdle ==
    /\ api_key = TRUE /\ uploaded_file = None /\ analysis_result = None
    /\ processing = FALSE
    /\ pc = [a \in Triggers |-> "NotYet"]
    /\ file = [a \in Triggers |-> None]
    /\ paper_text = [a \in Triggers |-> None]
    /\ reply = [a \in Triggers |-> NoReply]
    /\ issued = [a \in Triggers |-> 0]
    /\ reported = [a \in Triggers |-> <<>>]
    /\ excerpt = [a \in Triggers |-> None]
    /\ rendered = UploadForm

-----------------------------------------------------------------------------
(* Specifications *)

Init == SessionInit /\ PdfIdle /\ FcIdle
Next ==
    \/ \E d \in SessionDocs : Upload(d)
    \/ Rerun
    \/ \E a \in Triggers : Analyze(a)
    \/ \E a \in Triggers : Extract(a)
    \/ \E a \in Triggers, r \in Replies : Respond(a, r)
    \/ \E a \in Triggers : Normalize(a)
    \/ NewAnalysis
Spec == Init /\ [][Next]_vars

InitPdf == SessionIdle /\ PdfInit /\ FcIdle
NextPdf == ApplyParsePdf
SpecPdf == InitPdf /\ [][NextPdf]_vars

InitFc == SessionIdle /\ PdfIdle /\ FcInit
NextFc == ApplyParseContent
SpecFc == InitFc /\ [][NextFc]_vars

-----------------------------------------------------------------------------
(* Properties *)

Ended == {"Done", "Failed", "Crashed"}
Range(q) == {q[i] : i \in DOMAIN q}

\* p occurs in s as a contiguous part
Occurs(p, s) == \E i \in 1..(Len(s) - Len(p) + 1) : SubSeq(s, i, i + Len(p) - 1) = p

\* a key as a JSON text holds it: "key":
KeyText(k) == Quoted(k) \o <<":">>

\* the values of the JSON object texts, written out
FullValue ==
    Dict((metadata :> Dict((title :> Str(<<"T">>)) @@ (year :> Str(<<"Y">>))))
         @@ (summary :> Dict((research_question :> Str(<<"R">>))
                             @@ (key_findings :> List(<<Str(<<"F">>), Str(<<"G">>)>>)))))
PartialValue == Dict(metadata :> Dict(title :> Str(<<"T">>)))
ExtraValue ==
    Dict((summary :> Dict(research_question :> Str(<<"R">>))) @@ (extra :> Str(<<"E">>)))
HollowValue == Dict(metadata :> Dict(<<>>))
EmptyValue == Dict(<<>>)
ValueOf(j) ==
    CASE j = FullJson -> FullValue
      [] j = PartialJson -> PartialValue
      [] j = ExtraJson -> ExtraValue
      [] j = HollowJson -> HollowValue
      [] j = EmptyJson -> EmptyValue

\* the completion of trigger a was a 200 with content c
Got(a, c) ==
    reply[a].kind = "response" /\ reply[a].status = 200
    /\ reply[a].body = "content" /\ reply[a].content = c

\* C1: every analyze action that leaves Extracting, Requesting or
\* Normalizing leaves it for exactly one of Done (a result is stored, no
\* failure is reported) and Failed (an error is reported, no result is
\* stored); it never ends with neither.
C1_ExactlyOneOutcome ==
    [][\A a \in Triggers :
         (pc[a] \in InProgress /\ pc'[a] \notin InProgress) =>
            \/ /\ pc'[a] = "Done"
               /\ Truthy(analysis_result')
               /\ "analysis_failed" \notin Range(reported'[a])
            \/ /\ pc'[a] = "Failed"
               /\ reported'[a] # <<>>
               /\ analysis_result' = None]_vars

\* C2: at most one analyze action of the session is under way, the flag is
\* set while it is, and no action posts more than one completion request: a
\* trigger that arrives meanwhile starts nothing.
C2_OneRequestInFlight ==
    /\ Cardinality({a \in Triggers : pc[a] \in InProgress}) <= 1
    /\ (\E a \in Triggers : pc[a] \in InProgress) => processing
    /\ \A a \in Triggers : issued[a] <= 1
    /\ \A a \in Triggers : pc[a] = "Ignored" => issued[a] = 0

\* a second trigger was ignored while the first one's request is in flight
C2_Witness == pc[1] = "Requesting" /\ pc[2] = "Ignored" /\ issued[1] = 1

C4_SubsetEndsDone ==
    \A a \in Triggers :
        (pc[a] \in Ended /\ \E j \in JsonObjects : Got(a, j)) => pc[a] = "Done"

\* C5: no exception leaves an analyze action unhandled.
C5_NoUnhandledFault == \A a \in Triggers : pc[a] # "Crashed"

\* the document of trigger a has text to extract
HasText(doc) ==
    /\ doc.t = "file" /\ doc.v.opens
    /\ \A i \in 1..Len(doc.v.pages) : doc.v.pages[i].t # "raise"
    /\ \E i \in 1..Len(doc.v.pages) :
         doc.v.pages[i].t = "str" /\ Len(doc.v.pages[i].v) > 0

\* C6: a completion request is posted only with the API key configured and
\* a non-empty document text; without the key no analyze action starts; an
\* action whose document yields no text ends in Failed with the extraction
\* failure reported and no request posted.
C6_RequestNeedsKeyAndText ==
    /\ \A a \in Triggers :
         issued[a] > 0 =>
            /\ api_key
            /\ paper_text[a].t = "str" /\ Len(paper_text[a].v) > 0
            /\ HasText(file[a])
    /\ ~api_key => \A a \in Triggers : pc[a] \in {"NotYet", "Stopped"} /\ issued[a] = 0
    /\ \A a \in Triggers :
         (pc[a] \in InProgress \cup Ended /\ pc[a] # "Extracting" /\ ~HasText(file[a])) =>
            /\ pc[a] = "Failed"
            /\ reported[a][Len(reported[a])] = "extract_failed"
            /\ issued[a] = 0

\* a scanned document failed at the extraction, and a later action of the
\* session posted its request
C6_Witness ==
    /\ pc[1] = "Failed" /\ file[1] = Document(TRUE, <<None>>) /\ issued[1] = 0
    /\ pc[2] = "Requesting" /\ issued[2] = 1

\* the contents that are no JSON once cleaned
NonJsonContents ==
    {Prose, LongProse, <<" ">> \o FenceJson \o LongProse,
     Wrap(PartialJson, <<>>, "bare", <<"\n">>, TRUE)}

FcGives(j) == fc_out.ret = ValueOf(j) /\ ~fc_out.caught

\* C8 as stated: a JSON object text wrapped in an opening fence, tagged json
\* or bare, and a closing fence gives the value of the text itself, as does
\* the text without fences.
C8_FencesStripped ==
    (fc_out.done /\ fc_in.j \in JsonObjects) =>
        /\ (fc_in.opening \in {"tagged", "bare"} /\ fc_in.closing) => FcGives(fc_in.j)
        /\ (fc_in.opening = "none" /\ ~fc_in.closing) => FcGives(fc_in.j)

\* C8 as amended: a JSON object text wrapped in an opening fence tagged json
\* and a closing fence gives the value of the text itself, as does the text
\* without fences; a bare opening fence is not removed and the parse fails.
C8_TaggedFencesStripped ==
    (fc_out.done /\ fc_in.j \in JsonObjects) =>
        /\ (fc_in.opening = "tagged" /\ fc_in.closing) => FcGives(fc_in.j)
        /\ (fc_in.opening = "none" /\ ~fc_in.closing) => FcGives(fc_in.j)
        /\ fc_in.opening = "bare" => fc_out.caught /\ fc_out.ret = None

\* a fenced and tagged partial reply was parsed to the partial value
C8_Witness ==
    /\ fc_out.done /\ fc_in.j = PartialJson
    /\ fc_in.opening = "tagged" /\ fc_in.closing /\ fc_in.sep = <<"\n">>
    /\ fc_out.ret = PartialValue

\* each non-empty page text followed by a newline, in the order of the pages
RECURSIVE Concatenation(_)
Concatenation(pages) ==
    IF pages = <<>> THEN <<>>
    ELSE (IF Head(pages).t = "str" /\ Head(pages).v # <<>>
          THEN Head(pages).v \o <<"\n">> ELSE <<>>) \o Concatenation(Tail(pages))

Readable(doc) ==
    doc.v.opens /\ \A i \in 1..Len(doc.v.pages) : doc.v.pages[i].t # "raise"

\* C9: for a document that is read without an exception, parse_pdf returns
\* the first 15000 characters of the concatenation of its non-empty page
\* texts, each followed by a newline: never more than the budget, and the
\* whole concatenation when that is within the budget.
C9_TruncatedConcatenation ==
    (pdf_out.done /\ Readable(pdf_file)) =>
        LET whole == Concatenation(pdf_file.v.pages)
            text == pdf_out.ret
        IN /\ text.t = "str"
           /\ Len(text.v) <= Budget
           /\ Len(text.v) = Min(Len(whole), Budget)
           /\ \A i \in 1..Len(text.v) : text.v[i] = whole[i]
           /\ Len(whole) <= Budget => text.v = whole

\* a document longer than the budget was cut in the middle of a page
C9_Witness ==
    /\ pdf_out.done /\ Readable(pdf_file)
    /\ Len(Concatenation(pdf_file.v.pages)) > Budget
    /\ Len(pdf_out.ret.v) = Budget

\* C10: whenever no analyze action is under way and no result is held, the
\* flag is cleared, so that Analyze can be triggered again: no failure
\* leaves the session unable to start a new analysis.
C10_RetryPossible ==
    (api_key /\ ~Truthy(analysis_result) /\ \A a \in Triggers : pc[a] \notin InProgress)
        => ~processing

\* C11: while a result is held no analyze action is under way, and a step
\* either leaves the result as it is, starting no extraction and posting no
\* request, or is "Analyze New Paper": the result and the flag are cleared,
\* the upload form is shown again and no action has moved.  The result held
\* is the one the latest action that reached Done stored.
C11_ResultHeldUntilNewAnalysis ==
    [][Truthy(analysis_result) =>
         /\ \A a \in Triggers : pc[a] \notin InProgress
         /\ \E a \in Triggers : pc[a] = "Done"
         /\ \/ /\ analysis_result' = analysis_result
               /\ issued' = issued
               /\ \A a \in Triggers : pc'[a] \notin InProgress
            \/ /\ analysis_result' = None
               /\ processing' = FALSE
               /\ rendered' = UploadForm
               /\ uploaded_file' = uploaded_file
               /\ pc' = pc /\ issued' = issued]_vars

\* a result was stored, a later trigger started nothing, and "Analyze New
\* Paper" cleared the result and the flag
C11_Witness ==
    /\ pc[1] = "Done" /\ pc[2] = "Ignored" /\ file[2] = None
    /\ analysis_result = None /\ ~processing
    /\ rendered = UploadForm

====
